---- MODULE Spec2Model ----
(***************************************************************************)
(* Model of the account route handlers of app/api/user/views.py.          *)
(*                                                                         *)
(* Every handler is an asyncio coroutine: it runs alone until it awaits a  *)
(* collaborator, and other requests run while it is suspended.  A request  *)
(* is therefore a small process.  Each action of a handler is the code     *)
(* from the point where the previous awaited call has returned up to the   *)
(* point where the next awaited call has returned (its effect on the       *)
(* collaborator's store and the binding of its result), or up to the       *)
(* return of the handler.                                                  *)
(*                                                                         *)
(* The collaborators (UserService, OTPGenerator, refreshJWT, the tasks)    *)
(* are not part of views.py; they are modelled by the contract the         *)
(* handlers rely on.                                                       *)
(***************************************************************************)
EXTENDS Integers, Sequences, FiniteSets, TLC

\* ------------------------------------------------------------------ bounds

\* Number of requests in flight over one behaviour.
NumReq == 2
\* Longest sequence the update_username generator yields.
MaxItems == 2

Reqs == 1..NumReq

\* ------------------------------------------------------------ value domains

Emails == {"a@b.com", "x@y.com"}
UserIds == {"u1", "u2"}
Codes == {"111111", "000000"}
Passwords == {"pw1", "pw2"}
Usernames == {"neo"}
NoUser == "none"
NoOtp == "none"
\* A header or body field that holds no token.
NoToken == <<>>
Unset == "-"

\* The id a user record gets when it is created for an email.
UidOf(email) == IF email = "a@b.com" THEN "u1" ELSE "u2"

\* A token is an opaque string to the handlers.  A well-formed one carries its
\* kind, its user and the serial of its issue, so that two tokens issued at
\* different times differ.
Token(kind, uid, n) == <<kind, uid, n>>
TokenUid(t) == IF Len(t) = 3 THEN t[2] ELSE NoUser
TokenKind(t) == IF Len(t) = 3 THEN t[1] ELSE "malformed"
Garbage == <<"garbage">>
\* A well-formed token of each kind that the service never signed.
Forged(kind) == Token(kind, "u2", 0)

Handlers ==
  {"update_username", "get_otp", "verify_otp", "create_user", "login",
   "refresh_token", "change_user_password", "verify_email", "reset_password"}

VARIABLES
  users,     \* user table: email -> user id, NoUser when there is no record
  passwd,    \* stored password of each user id
  otps,      \* OTP store: user id -> pending code, NoOtp when none
  issued,    \* tokens signed by the service so far
  serial,    \* serial of the next issue of tokens
  op,        \* handler run by each request, "idle" before it arrives
  pc,        \* position of each request in its handler
  arg,       \* request inputs (path, body and header values)
  loc,       \* local variables of the handler
  yielded,   \* items the update_username generator has yielded to the request
  calls,     \* collaborator calls made on behalf of the request, in order
  bg,        \* the request's BackgroundTasks, in order of add_task
  resp       \* response of the request

vars ==
  <<users, passwd, otps, issued, serial, op, pc, arg, loc, yielded, calls, bg, resp>>

NoArg ==
  [email |-> Unset, otp |-> Unset, token |-> Unset, bearer |-> NoToken,
   refresh_token |-> NoToken, password |-> Unset, old_password |-> Unset,
   new_password |-> Unset, new_username |-> Unset]
NoLoc ==
  [user_id |-> Unset, otp |-> Unset, message |-> Unset, status |-> FALSE,
   item |-> <<>>]
NoResp == [kind |-> "none"]

\* A response of the framework for an exception raised in a handler.
ErrorResp(error) == [kind |-> "error", error |-> error]
\* A response built from the handler's return value.
OkResp(body) == [kind |-> "ok", body |-> body]

Init ==
  /\ users = [e \in Emails |-> IF e = "a@b.com" THEN "u1" ELSE NoUser]
  /\ passwd = [u \in UserIds |-> IF u = "u1" THEN "pw1" ELSE Unset]
  /\ otps = [u \in UserIds |-> NoOtp]
  /\ issued = {Token("access", "u1", 0), Token("refresh", "u1", 0)}
  /\ serial = 1
  /\ op = [r \in Reqs |-> "idle"]
  /\ pc = [r \in Reqs |-> "idle"]
  /\ arg = [r \in Reqs |-> NoArg]
  /\ loc = [r \in Reqs |-> NoLoc]
  /\ yielded = [r \in Reqs |-> <<>>]
  /\ calls = [r \in Reqs |-> <<>>]
  /\ bg = [r \in Reqs |-> <<>>]
  /\ resp = [r \in Reqs |-> NoResp]

\* ------------------------------------------------------------ collaborators

\* UserService.find_by_email: the user with this email; NoUser stands for the
\* NotFound error it raises when there is none.
find_by_email(email) == users[email]

\* UserService.auth_wrapper: the user id of a valid bearer access token;
\* NoUser stands for the Unauthorized error.
auth_wrapper(bearer) ==
  IF bearer \in issued /\ TokenKind(bearer) = "access" THEN TokenUid(bearer) ELSE NoUser

\* refreshJWT: a new access token for the user of a valid refresh token;
\* NoToken stands for the error raised for an invalid one.
refreshJWT(token) ==
  IF token \in issued /\ TokenKind(token) = "refresh"
  THEN Token("access", TokenUid(token), serial) ELSE NoToken

\* UserService.decode_token: the user id carried by an access token.
decode_token(token) == TokenUid(token)

\* OTPGenerator(user_id).check_otp: the (message, flag) pair of the check of a
\* candidate code against the pending, unexpired code of the user.
check_otp(user_id, otp) ==
  IF otps[user_id] # NoOtp /\ otps[user_id] = otp
  THEN <<"OTP verified", TRUE>> ELSE <<"Invalid OTP", FALSE>>

\* The f-strings of get_otp and verify_email: a fixed text followed by the code.
OtpMessage(otp) == <<"Complete your verification process with this OTP: ", otp>>
TokenMessage(otp) == <<"Complete the process with this token: ", otp>>

\* A task as held by BackgroundTasks: queued until the framework runs it.
MailTask(subject, message, recipient_list) ==
  [fn |-> "send_mail", subject |-> subject, message |-> message,
   recipient_list |-> recipient_list, state |-> "queued"]
ProfileTask(result) ==
  [fn |-> "create_profile", result |-> result, state |-> "queued"]

Globals == <<users, passwd, otps, issued, serial>>

\* Bearer headers a client can send: an access token signed so far, a forged
\* one, or none.
BearerInputs ==
  {t \in issued : TokenKind(t) = "access"} \cup {Forged("access"), NoToken}
\* Bodies a client can send to /refresh_token: a refresh token signed so far, a
\* forged one, or a string that is no token.
RefreshInputs ==
  {t \in issued : TokenKind(t) = "refresh"} \cup {Forged("refresh"), Garbage}

\* The request moves to position p with response rs; c is appended to its calls.
Step(r, p, c, rs) ==
  /\ pc' = [pc EXCEPT ![r] = p]
  /\ calls' = [calls EXCEPT ![r] = @ \o c]
  /\ resp' = [resp EXCEPT ![r] = rs]

\* The framework raises the error of a failed call: the handler is left.
Raise(r, c, error) == Step(r, "done", c, ErrorResp(error))

\* ------------------------------------------------------------------ requests

ArgsOf(h) ==
  CASE h = "update_username" ->
         {[NoArg EXCEPT !.bearer = b, !.new_username = n] :
            b \in BearerInputs, n \in Usernames}
    [] h = "get_otp" -> {[NoArg EXCEPT !.email = e] : e \in Emails}
    [] h = "verify_otp" ->
         {[NoArg EXCEPT !.email = e, !.otp = c] : e \in Emails, c \in Codes}
    [] h = "create_user" ->
         {[NoArg EXCEPT !.email = e, !.password = p] : e \in Emails, p \in {"pw1"}}
    [] h = "login" ->
         {[NoArg EXCEPT !.email = e, !.password = p] : e \in Emails, p \in Passwords}
    [] h = "refresh_token" ->
         {[NoArg EXCEPT !.refresh_token = t] : t \in RefreshInputs}
    [] h = "change_user_password" ->
         {[NoArg EXCEPT !.bearer = b, !.old_password = o, !.new_password = n] :
            b \in BearerInputs, o \in {"pw1"}, n \in {"pw2"}}
    [] h = "verify_email" -> {[NoArg EXCEPT !.email = e] : e \in Emails}
    [] h = "reset_password" ->
         {[NoArg EXCEPT !.email = e, !.token = c, !.new_password = n] :
            e \in Emails, c \in Codes, n \in {"pw2"}}

\* The router hands a request with inputs a to handler h, which starts to run.
Arrive(r, h, a) ==
  /\ op[r] = "idle"
  /\ op' = [op EXCEPT ![r] = h]
  /\ arg' = [arg EXCEPT ![r] = a]

At(r, h, p) == op[r] = h /\ pc[r] = p

\* ---------------------------------------------- PATCH /change/username

\* Depends(auth_handler.auth_wrapper): the framework resolves the caller before
\* the body runs, and answers Unauthorized itself when the dependency raises.
update_username_depends(r) ==
  /\ pc[r] = "idle"
  /\ \E a \in ArgsOf("update_username") :
       /\ Arrive(r, "update_username", a)
       /\ LET user_id == auth_wrapper(a.bearer) IN
            IF user_id = NoUser
            THEN /\ Raise(r, <<>>, "Unauthorized")
                 /\ UNCHANGED loc
            ELSE /\ Step(r, "iterate", <<>>, NoResp)
                 /\ loc' = [loc EXCEPT ![r].user_id = user_id]
       /\ UNCHANGED <<Globals, yielded, bg>>

\* UserService.update_username yields one item per record that carries the
\* username: the caller's own record first, then records kept under other ids.
UpdateItem(user_id, username, k) ==
  <<IF k % 2 = 1 THEN user_id ELSE IF user_id = "u1" THEN "u2" ELSE "u1", username>>

\* One turn of `async for item in user_service.update_username(...)`: the
\* generator yields its next item, ends, or raises.  When it ends the handler
\* returns its message.
update_username_next(r) ==
  /\ At(r, "update_username", "iterate")
  /\ LET c == <<<<"update_username", loc[r].user_id, arg[r].new_username>>>> IN
       \/ /\ Len(yielded[r]) < MaxItems
          /\ LET item == UpdateItem(loc[r].user_id, arg[r].new_username,
                                    Len(yielded[r]) + 1) IN
               /\ yielded' = [yielded EXCEPT ![r] = Append(@, item)]
               /\ loc' = [loc EXCEPT ![r].item = item]
               /\ Step(r, "propagate", c, NoResp)
       \/ /\ Step(r, "done", c,
                  OkResp([detail |-> <<"Username updated to ", arg[r].new_username>>,
                          status |-> TRUE]))
          /\ UNCHANGED <<yielded, loc>>
       \/ /\ Raise(r, c, "ServiceError")
          /\ UNCHANGED <<yielded, loc>>
  /\ UNCHANGED <<Globals, op, arg, bg>>

\* The propagation called with the caller's id instead of the item's.
update_username_propagate_caller_id(r) ==
  /\ At(r, "update_username", "propagate")
  /\ LET c == <<<<"update_username_in_social", loc[r].user_id, loc[r].item[2]>>>> IN
       \/ Step(r, "iterate", c, NoResp)
       \/ Raise(r, c, "SocialError")
  /\ UNCHANGED <<Globals, op, arg, loc, yielded, bg>>

\* The success message returned from inside the loop, after one propagation.
update_username_propagate_returns(r) ==
  /\ At(r, "update_username", "propagate")
  /\ LET c == <<<<"update_username_in_social", loc[r].item[1], loc[r].item[2]>>>> IN
       \/ Step(r, "done", c,
               OkResp([detail |-> <<"Username updated to ", arg[r].new_username>>,
                       status |-> TRUE]))
       \/ Raise(r, c, "SocialError")
  /\ UNCHANGED <<Globals, op, arg, loc, yielded, bg>>

\* `await update_username_in_social(user_id=item["user_id"], ...)`: the body of
\* the loop; the call completes or raises.
update_username_propagate(r) ==
  /\ At(r, "update_username", "propagate")
  /\ LET c == <<<<"update_username_in_social", loc[r].item[1], loc[r].item[2]>>>> IN
       \/ Step(r, "iterate", c, NoResp)
       \/ Raise(r, c, "SocialError")
  /\ UNCHANGED <<Globals, op, arg, loc, yielded, bg>>

\* ------------------------------------------------- GET /otp/send/{email}

\* get_otp going on when the lookup finds no user.
get_otp_find_by_email_unchecked(r) ==
  /\ pc[r] = "idle"
  /\ \E a \in ArgsOf("get_otp") :
       /\ Arrive(r, "get_otp", a)
       /\ Step(r, "otp", <<<<"find_by_email", a.email>>>>, NoResp)
       /\ loc' = [loc EXCEPT ![r].user_id = UidOf(a.email)]
       /\ UNCHANGED <<Globals, yielded, bg>>

get_otp_find_by_email(r) ==
  /\ pc[r] = "idle"
  /\ \E a \in ArgsOf("get_otp") :
       /\ Arrive(r, "get_otp", a)
       /\ LET c == <<<<"find_by_email", a.email>>>>
              user == find_by_email(a.email) IN
            IF user = NoUser
            THEN /\ Raise(r, c, "NotFound")
                 /\ UNCHANGED loc
            ELSE /\ Step(r, "otp", c, NoResp)
                 /\ loc' = [loc EXCEPT ![r].user_id = user]
       /\ UNCHANGED <<Globals, yielded, bg>>

\* OTPGenerator(user_id=user.id).get_otp(): a code becomes the pending code of
\* the user and is returned.
get_otp_get_otp(r) ==
  /\ At(r, "get_otp", "otp")
  /\ \E otp \in Codes :
       /\ otps' = [otps EXCEPT ![loc[r].user_id] = otp]
       /\ loc' = [loc EXCEPT ![r].otp = otp]
  /\ Step(r, "schedule", <<<<"get_otp", loc[r].user_id>>>>, NoResp)
  /\ UNCHANGED <<users, passwd, issued, serial, op, arg, yielded, bg>>

\* get_otp awaiting send_mail instead of adding it to the background tasks.
get_otp_return_awaiting_mail(r) ==
  /\ At(r, "get_otp", "schedule")
  /\ \E out \in {"done", "failed"} :
       /\ bg' = [bg EXCEPT ![r] =
                   Append(@, [MailTask("OTP", OtpMessage(loc[r].otp), <<arg[r].email>>)
                                EXCEPT !.state = out])]
       /\ IF out = "done"
          THEN Step(r, "done", <<>>,
                    OkResp([detail |-> "OTP has been sent to your email",
                            status |-> TRUE]))
          ELSE Raise(r, <<>>, "MailError")
  /\ UNCHANGED <<Globals, op, arg, loc, yielded>>

\* get_otp reading the code to mail from the OTP store when it returns.
get_otp_return_shared_code(r) ==
  /\ At(r, "get_otp", "schedule")
  /\ bg' = [bg EXCEPT ![r] =
              Append(@, MailTask("OTP", OtpMessage(otps[loc[r].user_id]),
                                 <<arg[r].email>>))]
  /\ Step(r, "done", <<>>,
          OkResp([detail |-> "OTP has been sent to your email", status |-> TRUE]))
  /\ UNCHANGED <<Globals, op, arg, loc, yielded>>

\* The message is formatted, the mail is added to the background tasks and the
\* handler returns.
get_otp_return(r) ==
  /\ At(r, "get_otp", "schedule")
  /\ bg' = [bg EXCEPT ![r] =
              Append(@, MailTask("OTP", OtpMessage(loc[r].otp), <<arg[r].email>>))]
  /\ Step(r, "done", <<>>,
          OkResp([detail |-> "OTP has been sent to your email", status |-> TRUE]))
  /\ UNCHANGED <<Globals, op, arg, loc, yielded>>

\* ---------------------------------------------------- POST /otp/verify

verify_otp_find_by_email(r) ==
  /\ pc[r] = "idle"
  /\ \E a \in ArgsOf("verify_otp") :
       /\ Arrive(r, "verify_otp", a)
       /\ LET c == <<<<"find_by_email", a.email>>>>
              user == find_by_email(a.email) IN
            IF user = NoUser
            THEN /\ Raise(r, c, "NotFound")
                 /\ UNCHANGED loc
            ELSE /\ Step(r, "check", c, NoResp)
                 /\ loc' = [loc EXCEPT ![r].user_id = user]
       /\ UNCHANGED <<Globals, yielded, bg>>

verify_otp_check_otp(r) ==
  /\ At(r, "verify_otp", "check")
  /\ LET res == check_otp(loc[r].user_id, arg[r].otp) IN
       loc' = [loc EXCEPT ![r].message = res[1], ![r].status = res[2]]
  /\ Step(r, "return", <<<<"check_otp", loc[r].user_id, arg[r].otp>>>>, NoResp)
  /\ UNCHANGED <<Globals, op, arg, yielded, bg>>

\* verify_otp raising on a failed check instead of returning the pair.
verify_otp_return_raising(r) ==
  /\ At(r, "verify_otp", "return")
  /\ IF loc[r].status
     THEN Step(r, "done", <<>>,
               OkResp([detail |-> loc[r].message, status |-> loc[r].status]))
     ELSE Raise(r, <<>>, "InvalidCredential")
  /\ UNCHANGED <<Globals, op, arg, loc, yielded, bg>>

verify_otp_return(r) ==
  /\ At(r, "verify_otp", "return")
  /\ Step(r, "done", <<>>,
          OkResp([detail |-> loc[r].message, status |-> loc[r].status]))
  /\ UNCHANGED <<Globals, op, arg, loc, yielded, bg>>

\* -------------------------------------------------------- POST /signup

\* UserService.create_user: a record for a new email, with its token pair.
TokenProfile(user_id) ==
  [user_id |-> user_id, access_token |-> Token("access", user_id, serial),
   refresh_token |-> Token("refresh", user_id, serial)]

\* `result = await user_service.create_user(user)`, then the profile task is
\* added and the result returned.
create_user(r) ==
  /\ pc[r] = "idle"
  /\ \E a \in ArgsOf("create_user") :
       /\ Arrive(r, "create_user", a)
       /\ LET c == <<<<"create_user", a.email>>>> IN
            IF users[a.email] # NoUser
            THEN /\ Raise(r, c, "BadRequest")
                 /\ UNCHANGED <<users, passwd, issued, serial, bg>>
            ELSE LET result == TokenProfile(UidOf(a.email)) IN
                   /\ users' = [users EXCEPT ![a.email] = result.user_id]
                   /\ passwd' = [passwd EXCEPT ![result.user_id] = a.password]
                   /\ issued' = issued \cup {result.access_token, result.refresh_token}
                   /\ serial' = serial + 1
                   /\ bg' = [bg EXCEPT ![r] = Append(@, ProfileTask(result))]
                   /\ Step(r, "done", c, OkResp(result))
       /\ UNCHANGED <<otps, loc, yielded>>

\* --------------------------------------------------------- POST /login

\* `return await user_service.login_user(user)`: the token pair of the user
\* whose credentials match, a (message, false) body otherwise.
login(r) ==
  /\ pc[r] = "idle"
  /\ \E a \in ArgsOf("login") :
       /\ Arrive(r, "login", a)
       /\ LET c == <<<<"login_user", a.email>>>>
              user == users[a.email] IN
            IF user # NoUser /\ passwd[user] = a.password
            THEN LET result == TokenProfile(user) IN
                   /\ issued' = issued \cup {result.access_token, result.refresh_token}
                   /\ serial' = serial + 1
                   /\ Step(r, "done", c, OkResp(result))
            ELSE /\ Step(r, "done", c,
                         OkResp([detail |-> "Invalid credentials", status |-> FALSE]))
                 /\ UNCHANGED <<issued, serial>>
       /\ UNCHANGED <<users, passwd, otps, loc, yielded, bg>>

\* ------------------------------------------------- POST /refresh_token

\* refresh_token answering with a newly signed refresh token.
refresh_token_rotated(r) ==
  /\ pc[r] = "idle"
  /\ \E a \in ArgsOf("refresh_token") :
       /\ Arrive(r, "refresh_token", a)
       /\ LET access_token == refreshJWT(a.refresh_token)
              user_id == decode_token(access_token)
              c == <<<<"refreshJWT", a.refresh_token>>>> IN
            IF access_token = NoToken
            THEN /\ Raise(r, c, "TokenInvalid")
                 /\ UNCHANGED <<issued, serial>>
            ELSE /\ issued' = issued \cup {access_token, Token("refresh", user_id, serial)}
                 /\ serial' = serial + 1
                 /\ Step(r, "done", c \o <<<<"decode_token", access_token>>>>,
                         OkResp([user_id |-> user_id, access_token |-> access_token,
                                 refresh_token |-> Token("refresh", user_id, serial)]))
       /\ UNCHANGED <<users, passwd, otps, loc, yielded, bg>>

\* refresh_token decoding the token of the request itself, without refreshJWT.
refresh_token_undecoded(r) ==
  /\ pc[r] = "idle"
  /\ \E a \in ArgsOf("refresh_token") :
       /\ Arrive(r, "refresh_token", a)
       /\ LET user_id == decode_token(a.refresh_token)
              access_token == Token("access", user_id, serial)
              c == <<<<"decode_token", a.refresh_token>>>> IN
            IF user_id = NoUser
            THEN /\ Raise(r, c, "TokenInvalid")
                 /\ UNCHANGED <<issued, serial>>
            ELSE /\ issued' = issued \cup {access_token}
                 /\ serial' = serial + 1
                 /\ Step(r, "done", c,
                         OkResp([user_id |-> user_id, access_token |-> access_token,
                                 refresh_token |-> a.refresh_token]))
       /\ UNCHANGED <<users, passwd, otps, loc, yielded, bg>>

\* The handler awaits nothing: it runs in one step.
refresh_token(r) ==
  /\ pc[r] = "idle"
  /\ \E a \in ArgsOf("refresh_token") :
       /\ Arrive(r, "refresh_token", a)
       /\ LET access_token == refreshJWT(a.refresh_token)
              user_id == decode_token(access_token)
              c == <<<<"refreshJWT", a.refresh_token>>>> IN
            IF access_token = NoToken
            THEN /\ Raise(r, c, "TokenInvalid")
                 /\ UNCHANGED <<issued, serial>>
            ELSE /\ issued' = issued \cup {access_token}
                 /\ serial' = serial + 1
                 /\ Step(r, "done", c \o <<<<"decode_token", access_token>>>>,
                         OkResp([user_id |-> user_id, access_token |-> access_token,
                                 refresh_token |-> a.refresh_token]))
       /\ UNCHANGED <<users, passwd, otps, loc, yielded, bg>>

\* ----------------------------------------------- PATCH /change_password

\* change_user_password taking the user id of the bearer token unverified.
change_user_password_depends_unverified(r) ==
  /\ pc[r] = "idle"
  /\ \E a \in ArgsOf("change_user_password") :
       /\ Arrive(r, "change_user_password", a)
       /\ LET user_id == TokenUid(a.bearer) IN
            IF user_id = NoUser
            THEN /\ Raise(r, <<>>, "Unauthorized")
                 /\ UNCHANGED loc
            ELSE /\ Step(r, "change", <<>>, NoResp)
                 /\ loc' = [loc EXCEPT ![r].user_id = user_id]
       /\ UNCHANGED <<Globals, yielded, bg>>

change_user_password_depends(r) ==
  /\ pc[r] = "idle"
  /\ \E a \in ArgsOf("change_user_password") :
       /\ Arrive(r, "change_user_password", a)
       /\ LET user_id == auth_wrapper(a.bearer) IN
            IF user_id = NoUser
            THEN /\ Raise(r, <<>>, "Unauthorized")
                 /\ UNCHANGED loc
            ELSE /\ Step(r, "change", <<>>, NoResp)
                 /\ loc' = [loc EXCEPT ![r].user_id = user_id]
       /\ UNCHANGED <<Globals, yielded, bg>>

\* `return await user_service.change_password(user_id=user_id, **form_data)`:
\* the stored password is replaced when the old one matches.
change_user_password(r) ==
  /\ At(r, "change_user_password", "change")
  /\ LET user_id == loc[r].user_id
         c == <<<<"change_password", user_id, arg[r].old_password,
                  arg[r].new_password>>>> IN
       IF passwd[user_id] = arg[r].old_password
       THEN /\ passwd' = [passwd EXCEPT ![user_id] = arg[r].new_password]
            /\ Step(r, "done", c,
                    OkResp([detail |-> "Password changed", status |-> TRUE]))
       ELSE /\ Step(r, "done", c,
                    OkResp([detail |-> "Incorrect password", status |-> FALSE]))
            /\ UNCHANGED passwd
  /\ UNCHANGED <<users, otps, issued, serial, op, arg, loc, yielded, bg>>

\* -------------------------------------------- GET /forgot_password/{email}

verify_email_find_by_email(r) ==
  /\ pc[r] = "idle"
  /\ \E a \in ArgsOf("verify_email") :
       /\ Arrive(r, "verify_email", a)
       /\ LET c == <<<<"find_by_email", a.email>>>>
              user == find_by_email(a.email) IN
            IF user = NoUser
            THEN /\ Raise(r, c, "NotFound")
                 /\ UNCHANGED loc
            ELSE /\ Step(r, "otp", c, NoResp)
                 /\ loc' = [loc EXCEPT ![r].user_id = user]
       /\ UNCHANGED <<Globals, yielded, bg>>

verify_email_get_otp(r) ==
  /\ At(r, "verify_email", "otp")
  /\ \E otp \in Codes :
       /\ otps' = [otps EXCEPT ![loc[r].user_id] = otp]
       /\ loc' = [loc EXCEPT ![r].otp = otp]
  /\ Step(r, "schedule", <<<<"get_otp", loc[r].user_id>>>>, NoResp)
  /\ UNCHANGED <<users, passwd, issued, serial, op, arg, yielded, bg>>

\* The mail is added to the background tasks (its subject is a 1-tuple), then
\* `return await user_service.forgot_password(email)`.
verify_email_forgot_password(r) ==
  /\ At(r, "verify_email", "schedule")
  /\ bg' = [bg EXCEPT ![r] =
              Append(@, MailTask(<<"Forgot Password">>, TokenMessage(loc[r].otp),
                                 <<arg[r].email>>))]
  /\ Step(r, "done", <<<<"forgot_password", arg[r].email>>>>,
          OkResp([detail |-> "Password reset token sent", status |-> TRUE]))
  /\ UNCHANGED <<Globals, op, arg, loc, yielded>>

\* -------------------------------------------- POST /reset_password/{email}

reset_password_find_by_email(r) ==
  /\ pc[r] = "idle"
  /\ \E a \in ArgsOf("reset_password") :
       /\ Arrive(r, "reset_password", a)
       /\ LET c == <<<<"find_by_email", a.email>>>>
              user == find_by_email(a.email) IN
            IF user = NoUser
            THEN /\ Raise(r, c, "NotFound")
                 /\ UNCHANGED loc
            ELSE /\ Step(r, "check", c, NoResp)
                 /\ loc' = [loc EXCEPT ![r].user_id = user]
       /\ UNCHANGED <<Globals, yielded, bg>>

reset_password_check_otp(r) ==
  /\ At(r, "reset_password", "check")
  /\ LET res == check_otp(loc[r].user_id, arg[r].token) IN
       loc' = [loc EXCEPT ![r].message = res[1], ![r].status = res[2]]
  /\ Step(r, "checked", <<<<"check_otp", loc[r].user_id, arg[r].token>>>>, NoResp)
  /\ UNCHANGED <<Globals, op, arg, yielded, bg>>

\* reset_password without the `if not status` return.
reset_password_unconditional(r) ==
  /\ At(r, "reset_password", "checked")
  /\ passwd' = [passwd EXCEPT ![users[arg[r].email]] = arg[r].new_password]
  /\ Step(r, "done", <<<<"password_reset", arg[r].email, arg[r].new_password>>>>,
          OkResp([detail |-> "Password reset successful", status |-> TRUE]))
  /\ UNCHANGED <<users, otps, issued, serial, op, arg, loc, yielded, bg>>

\* `if not status: return {...}`, else
\* `return await user_service.password_reset(email, password)`.
reset_password(r) ==
  /\ At(r, "reset_password", "checked")
  /\ IF ~loc[r].status
     THEN /\ Step(r, "done", <<>>,
                  OkResp([detail |-> loc[r].message, status |-> loc[r].status]))
          /\ UNCHANGED passwd
     ELSE /\ passwd' = [passwd EXCEPT ![users[arg[r].email]] = arg[r].new_password]
          /\ Step(r, "done",
                  <<<<"password_reset", arg[r].email, arg[r].new_password>>>>,
                  OkResp([detail |-> "Password reset successful", status |-> TRUE]))
  /\ UNCHANGED <<users, otps, issued, serial, op, arg, loc, yielded, bg>>

\* ---------------------------------------------------------- environment

\* The framework runs the tasks of a request in order, after the response has
\* been produced by the handler; a task ends well or fails.
run_background_task(r) ==
  /\ resp[r].kind = "ok"
  /\ \E i \in 1..Len(bg[r]) :
       /\ bg[r][i].state = "queued"
       /\ \A j \in 1..(i - 1) : bg[r][j].state # "queued"
       /\ \E out \in {"done", "failed"} :
            bg' = [bg EXCEPT ![r][i].state = out]
  /\ UNCHANGED <<Globals, op, pc, arg, loc, yielded, calls, resp>>

\* The pending code of a user expires.
otp_expires(u) ==
  /\ otps[u] # NoOtp
  /\ otps' = [otps EXCEPT ![u] = NoOtp]
  /\ UNCHANGED <<users, passwd, issued, serial, op, pc, arg, loc, yielded,
                 calls, bg, resp>>

Next ==
  \/ \E r \in Reqs :
       \/ update_username_depends(r)
       \/ update_username_next(r)
       \/ update_username_propagate(r)
       \/ get_otp_find_by_email(r)
       \/ get_otp_get_otp(r)
       \/ get_otp_return(r)
       \/ verify_otp_find_by_email(r)
       \/ verify_otp_check_otp(r)
       \/ verify_otp_return(r)
       \/ create_user(r)
       \/ login(r)
       \/ refresh_token(r)
       \/ change_user_password_depends(r)
       \/ change_user_password(r)
       \/ verify_email_find_by_email(r)
       \/ verify_email_get_otp(r)
       \/ verify_email_forgot_password(r)
       \/ reset_password_find_by_email(r)
       \/ reset_password_check_otp(r)
       \/ reset_password(r)
       \/ run_background_task(r)
  \/ \E u \in UserIds : otp_expires(u)

Spec == Init /\ [][Next]_vars

\* ================================================================ properties

IsError(r, error) == resp[r].kind = "error" /\ resp[r].error = error
IsOk(r) == resp[r].kind = "ok"
Called(r, fn) == \E i \in 1..Len(calls[r]) : calls[r][i][1] = fn
CallsOf(r, fn) == LET Is(c) == c[1] = fn IN SelectSeq(calls[r], Is)
\* The request takes a step of its handler.
Moves(r) == pc'[r] # pc[r]
Resolves(uid) == \E e \in Emails : users[e] = uid
Message(message, flag) == [detail |-> message, status |-> flag]

\* ------------------------------------------------------------------------ C1

C1_NoReset ==
  \A r \in Reqs :
    (op[r] = "reset_password" /\ Called(r, "check_otp") /\ ~loc[r].status)
      => /\ ~Called(r, "password_reset")
         /\ pc[r] = "done" => resp[r] = OkResp(Message(loc[r].message, FALSE))

C1_Step ==
  \A r \in Reqs :
    /\ (At(r, "reset_password", "check") /\ Moves(r))
         => <<loc'[r].message, loc'[r].status>> = check_otp(loc[r].user_id, arg[r].token)
    /\ (At(r, "reset_password", "checked") /\ ~loc[r].status /\ Moves(r))
         => /\ passwd' = passwd
            /\ resp'[r] = OkResp(Message(loc[r].message, FALSE))

\* C1: when the OTP check of reset_password returns a false status, the request
\* never calls password_reset, the step that answers leaves every stored
\* password as it was, and the response is the check's message with status false.
C1_ResetFailingTokenNeverMutates == []C1_NoReset /\ [][C1_Step]_vars

\* A reset for a@b.com with the wrong token 000000 while 111111 is pending.
C1_Witness ==
  \E r \in Reqs :
    /\ At(r, "reset_password", "done")
    /\ arg[r].email = "a@b.com" /\ arg[r].token = "000000"
    /\ otps["u1"] = "111111"
    /\ IsOk(r) /\ resp[r].body.status = FALSE
    /\ passwd["u1"] = "pw1"

\* ------------------------------------------------------------------------ C2

\* C2: get_otp, verify_email and reset_password for an email without a user end
\* in NotFound having called nothing but find_by_email and scheduled no task.
C2_UnknownEmailNoSideEffect ==
  \A r \in Reqs :
    (/\ op[r] \in {"get_otp", "verify_email", "reset_password"}
     /\ users[arg[r].email] = NoUser \/ IsError(r, "NotFound"))
      => /\ pc[r] = "done"
         /\ IsError(r, "NotFound")
         /\ calls[r] = <<<<"find_by_email", arg[r].email>>>>
         /\ bg[r] = <<>>

\* A reset and a forgot-password request for x@y.com, which has no user, were
\* both refused.
C2_Witness ==
  \E r, q \in Reqs :
    /\ At(r, "reset_password", "done") /\ IsError(r, "NotFound")
    /\ At(q, "verify_email", "done") /\ IsError(q, "NotFound")
    /\ arg[r].email = "x@y.com" /\ users["x@y.com"] = NoUser

\* ------------------------------------------------------------------------ C3

Propagated(r) ==
  [i \in 1..Len(yielded[r]) |->
     <<"update_username_in_social", yielded[r][i][1], yielded[r][i][2]>>]

\* C3: a completed update_username request has called update_username_in_social
\* once per yielded item, with that item's user_id and username, in order; with
\* no item there is no call and the success message is still returned.
C3_PropagatesOncePerItem ==
  \A r \in Reqs :
    (op[r] = "update_username" /\ IsOk(r))
      => /\ CallsOf(r, "update_username_in_social") = Propagated(r)
         /\ resp[r].body = Message(<<"Username updated to ", arg[r].new_username>>, TRUE)

\* One request completed with no item, another with MaxItems items.
C3_Witness ==
  \E r, q \in Reqs :
    /\ op[r] = "update_username" /\ IsOk(r) /\ yielded[r] = <<>>
    /\ calls[r] = <<<<"update_username", "u1", "neo">>>>
    /\ op[q] = "update_username" /\ IsOk(q) /\ Len(yielded[q]) >= 2

\* ------------------------------------------------------------------------ C4

C4_Echo ==
  \A r \in Reqs :
    (op[r] = "refresh_token" /\ IsOk(r))
      => /\ resp[r].body.refresh_token = arg[r].refresh_token
         /\ resp[r].body.user_id = decode_token(resp[r].body.access_token)
         /\ calls[r] = <<<<"refreshJWT", arg[r].refresh_token>>,
                         <<"decode_token", resp[r].body.access_token>>>>

C4_Step ==
  \A r \in Reqs :
    (op'[r] = "refresh_token" /\ Moves(r) /\ resp'[r].kind = "ok")
      => resp'[r].body.access_token = refreshJWT(arg'[r].refresh_token)

\* C4: a response of refresh_token carries the refresh token of the request
\* unchanged, the access token that refreshJWT returned for it, and the user id
\* decoded from that access token.
C4_RefreshEchoesToken == []C4_Echo /\ [][C4_Step]_vars

\* The scenario of the specification: the token sent comes back, with a new
\* access token.
C4_Witness ==
  \E r \in Reqs :
    /\ op[r] = "refresh_token" /\ IsOk(r)
    /\ arg[r].refresh_token = Token("refresh", "u1", 0)
    /\ resp[r].body.refresh_token = Token("refresh", "u1", 0)
    /\ resp[r].body.access_token = Token("access", "u1", 1)

\* ------------------------------------------------------------------------ C5

C5_Uniform ==
  \A r \in Reqs :
    op[r] = "verify_otp"
      => /\ resp[r].kind = "error" => (IsError(r, "NotFound") /\ loc[r].user_id = Unset)
         /\ (pc[r] = "done" /\ loc[r].user_id # Unset)
              => resp[r] = OkResp(Message(loc[r].message, loc[r].status))

C5_Step ==
  \A r \in Reqs :
    (At(r, "verify_otp", "check") /\ Moves(r))
      => /\ <<loc'[r].message, loc'[r].status>> = check_otp(loc[r].user_id, arg[r].otp)
         /\ loc'[r].status = (otps[loc[r].user_id] # NoOtp
                                /\ otps[loc[r].user_id] = arg[r].otp)

\* C5: for a known email verify_otp never ends in an error; its response is the
\* (message, flag) pair of the OTP check, whose flag is true exactly when the
\* candidate is the pending, unexpired code of the user.
C5_VerifyOtpUniformShape == []C5_Uniform /\ [][C5_Step]_vars

\* A code is pending and the request carried another one: status false, no error.
C5_Witness ==
  \E r \in Reqs :
    /\ At(r, "verify_otp", "done")
    /\ otps["u1"] = "111111" /\ arg[r].email = "a@b.com" /\ arg[r].otp = "000000"
    /\ IsOk(r) /\ resp[r].body.status = FALSE

\* ------------------------------------------------------------------------ C6

MailHandlers == {"get_otp", "verify_email"}

C6_RunsAfterResponse ==
  \A r \in Reqs :
    op[r] \in MailHandlers
      => /\ (\E i \in 1..Len(bg[r]) : bg[r][i].state # "queued") => IsOk(r)
         /\ IsOk(r) => (Len(bg[r]) = 1 /\ bg[r][1].fn = "send_mail")

C6_Step ==
  \A r \in Reqs :
    op'[r] \in MailHandlers
      => /\ (resp[r].kind = "none" /\ resp'[r].kind # "none")
              => \A i \in 1..Len(bg'[r]) : bg'[r][i].state = "queued"
         /\ resp[r].kind # "none" => resp'[r] = resp[r]

\* C6: get_otp and verify_email only enqueue the mail: when the response is
\* produced the task is still queued, it runs only afterwards, and the response
\* stays what it was whether the task then succeeds, fails or never runs.
C6_MailDoesNotDelayResponse == []C6_RunsAfterResponse /\ [][C6_Step]_vars

\* The mail of a get_otp request failed after the success response was given.
C6_Witness ==
  \E r \in Reqs :
    /\ op[r] = "get_otp" /\ IsOk(r)
    /\ resp[r].body = Message("OTP has been sent to your email", TRUE)
    /\ bg[r][1].state = "failed"

\* ------------------------------------------------------------------------ C7

TokenHandlers == {"create_user", "login", "refresh_token"}

\* C7: every code requested from the OTP generator is requested for the id of
\* the user found for the request's email, every pending code and every signed
\* token belongs to a user id that resolves to a user, and every token pair in a
\* response of signup, login or refresh_token comes with that resolvable id,
\* which is the id its access token decodes to.
C7_NoOtpOrTokenWithoutUser ==
  /\ \A u \in UserIds : otps[u] # NoOtp => Resolves(u)
  /\ \A t \in issued : Resolves(TokenUid(t))
  /\ \A r \in Reqs :
       /\ \A i \in 1..Len(calls[r]) :
            calls[r][i][1] = "get_otp"
              => (calls[r][i][2] = users[arg[r].email] /\ Resolves(calls[r][i][2]))
       /\ (op[r] \in TokenHandlers /\ IsOk(r) /\ "access_token" \in DOMAIN resp[r].body)
            => /\ Resolves(resp[r].body.user_id)
               /\ decode_token(resp[r].body.access_token) = resp[r].body.user_id
               /\ TokenUid(resp[r].body.refresh_token) = resp[r].body.user_id

\* A user signed up and got a token pair, then a code was requested for the
\* same, new user.
C7_Witness ==
  \E r, q \in Reqs :
    /\ op[r] = "create_user" /\ IsOk(r) /\ resp[r].body.user_id = "u2"
    /\ op[q] = "get_otp" /\ Called(q, "get_otp") /\ loc[q].user_id = "u2"
    /\ otps["u2"] # NoOtp

\* ------------------------------------------------------------------------ C8

AuthHandlers == {"update_username", "change_user_password"}

\* C8: a username or password change whose bearer token is absent or invalid
\* ends Unauthorized without any service call; otherwise it is not refused and
\* update_username / change_password are called for the user id of the token.
C8_AuthRequired ==
  \A r \in Reqs :
    op[r] \in AuthHandlers
      => IF auth_wrapper(arg[r].bearer) = NoUser
         THEN pc[r] = "done" /\ IsError(r, "Unauthorized") /\ calls[r] = <<>>
         ELSE /\ ~IsError(r, "Unauthorized")
              /\ \A i \in 1..Len(calls[r]) :
                   calls[r][i][1] \in {"update_username", "change_password"}
                     => calls[r][i][2] = TokenUid(arg[r].bearer)
              /\ pc[r] = "done" /\ op[r] = "change_user_password"
                   => Called(r, "change_password")

\* A password change went through for the caller while a username change with
\* a forged token was refused.
C8_Witness ==
  \E r, q \in Reqs :
    /\ op[r] = "change_user_password" /\ IsOk(r) /\ resp[r].body.status = TRUE
    /\ passwd["u1"] = "pw2"
    /\ op[q] = "update_username" /\ IsError(q, "Unauthorized")
    /\ arg[q].bearer = Forged("access")

\* ------------------------------------------------------------------------ C9

C9_OwnCode ==
  \A r \in Reqs :
    (op[r] = "get_otp" /\ IsOk(r))
      => /\ CallsOf(r, "get_otp") = <<<<"get_otp", users[arg[r].email]>>>>
         /\ Len(bg[r]) = 1
         /\ bg[r][1].fn = "send_mail"
         /\ bg[r][1].message = OtpMessage(loc[r].otp)
         /\ bg[r][1].recipient_list = <<arg[r].email>>

C9_Step ==
  \A r \in Reqs :
    (At(r, "get_otp", "otp") /\ Moves(r))
      => /\ loc'[r].otp = otps'[loc[r].user_id]
         /\ loc'[r].otp \in Codes

\* C9: however get_otp requests interleave, each calls the generator once, for
\* the user of its own email, and schedules one mail whose message carries the
\* code that call returned to it and whose only recipient is its own email.
C9_ConcurrentOtpIndependent == []C9_OwnCode /\ [][C9_Step]_vars

\* Two requests for the same user got different codes; each mail has its own.
C9_Witness ==
  \E r, q \in Reqs :
    /\ op[r] = "get_otp" /\ IsOk(r) /\ op[q] = "get_otp" /\ IsOk(q)
    /\ arg[r].email = arg[q].email
    /\ loc[r].otp # loc[q].otp
    /\ bg[r][1].message # bg[q][1].message

\* ----------------------------------------------------------------------- C10

\* C10: the calls of an update_username request alternate strictly: a request
\* for the next item, then the propagation of that item, and so on in the order
\* of the sequence.  The success message comes only after the sequence has
\* ended with every item propagated, and after a failure of the sequence or of
\* a propagation nothing more is requested or propagated and no success is
\* returned.
C10_PropagationOrder ==
  \A r \in Reqs :
    (op[r] = "update_username" /\ ~IsError(r, "Unauthorized"))
      => LET n == Len(calls[r])
             k == Len(yielded[r]) IN
           /\ \A i \in 1..n :
                IF i % 2 = 1
                THEN calls[r][i][1] = "update_username"
                ELSE /\ i \div 2 <= k
                     /\ calls[r][i] = Propagated(r)[i \div 2]
           /\ pc[r] = "iterate" => (n = 2 * k /\ resp[r].kind = "none")
           /\ pc[r] = "propagate" => (n = 2 * k - 1 /\ resp[r].kind = "none")
           /\ IsOk(r) => (pc[r] = "done" /\ n = 2 * k + 1)
           /\ IsError(r, "ServiceError") => (pc[r] = "done" /\ n = 2 * k + 1)
           /\ IsError(r, "SocialError") => (pc[r] = "done" /\ n = 2 * k /\ k >= 1)

\* The propagation of the second item failed: the first was propagated before
\* the second was requested, and the request ended there with an error.
C10_Witness ==
  \E r \in Reqs :
    /\ op[r] = "update_username" /\ IsError(r, "SocialError")
    /\ Len(yielded[r]) = 2 /\ Len(calls[r]) = 4

====
